---- MODULE Spec2Model ----
(***************************************************************************)
(* State-machine model of server.js: the POST /api/:service router, its    *)
(* handlers, the response sink they write to and the upstream calls they   *)
(* issue.  One action models one run of a handler between two awaits (or   *)
(* one stream callback); the upstream provider's answer to the awaited     *)
(* call is the nondeterministic input of the action that resumes.          *)
(***************************************************************************)
EXTENDS Integers, Sequences, FiniteSets, TLC

\* ------------------------------------------------------------------ bounds
NumRequests == 2   \* request slots of the process
MaxEvents == 3     \* upstream stream events (or raw chunks) per request
MaxPolls == 3      \* status queries of one poll-until-complete request
MaxMessages == 2   \* messages in one request body
MaxText == 4       \* characters of a text handed to buildSSML

Requests == 1..NumRequests

\* ------------------------------------------------- strings as characters
\* A JS string is a sequence of one-character strings ("ccedil" stands for
\* the single character c-cedilla).
S_alloy == <<"a", "l", "l", "o", "y">>
S_echo == <<"e", "c", "h", "o">>
S_fable == <<"f", "a", "b", "l", "e">>
S_onyx == <<"o", "n", "y", "x">>
S_nova == <<"n", "o", "v", "a">>
S_shimmer == <<"s", "h", "i", "m", "m", "e", "r">>
S_francais == <<"f", "r", "a", "n", "ccedil", "a", "i", "s">>
S_espagnol == <<"e", "s", "p", "a", "g", "n", "o", "l">>
S_anglais == <<"a", "n", "g", "l", "a", "i", "s">>
S_italien == <<"i", "t", "a", "l", "i", "e", "n">>
S_constructor == <<"c", "o", "n", "s", "t", "r", "u", "c", "t", "o", "r">>
S_bogus == <<"b", "o", "g", "u", "s">>
S_NovaPadded == <<" ", "N", "o", "v", "a", " ">>
S_ECHO == <<"E", "C", "H", "O">>
S_EspagnolPadded == <<" ", "E", "s", "p", "a", "g", "n", "o", "l", " ">>
S_Bonjour == <<"B", "o", "n", "j", "o", "u", "r">>
S_t1 == <<"t", "1">>
V_Remy == <<"f", "r", "-", "F", "R", "-", "R", "e", "m", "y", "M", "u", "l", "t", "i", "l", "i", "n", "g", "u", "a", "l", "N", "e", "u", "r", "a", "l">>
V_Elvira == <<"e", "s", "-", "E", "S", "-", "E", "l", "v", "i", "r", "a", "N", "e", "u", "r", "a", "l">>
V_Jenny == <<"e", "n", "-", "U", "S", "-", "J", "e", "n", "n", "y", "N", "e", "u", "r", "a", "l">>
V_Denise == <<"f", "r", "-", "F", "R", "-", "D", "e", "n", "i", "s", "e", "N", "e", "u", "r", "a", "l">>
V_DenisePadded == <<" ", "f", "r", "-", "F", "R", "-", "D", "e", "n", "i", "s", "e", "N", "e", "u", "r", "a", "l", " ">>
E_espagnol == <<"l", "1", "z", "E", "9", "x", "g", "N", "p", "U", "T", "a", "Q", "C", "Z", "z", "p", "N", "J", "a">>
E_francais == <<"1", "a", "3", "l", "M", "d", "K", "L", "U", "c", "f", "c", "M", "t", "v", "N", "7", "7", "2", "u">>
E_anglais == <<"7", "t", "R", "w", "u", "Z", "T", "D", "1", "E", "W", "i", "6", "n", "y", "d", "V", "e", "r", "p">>
UpperChars == <<"A", "B", "C", "D", "E", "F", "G", "H", "I", "J", "K", "L", "M", "N", "O", "P", "Q", "R", "S", "T", "U", "V", "W", "X", "Y", "Z">>
LowerChars == <<"a", "b", "c", "d", "e", "f", "g", "h", "i", "j", "k", "l", "m", "n", "o", "p", "q", "r", "s", "t", "u", "v", "w", "x", "y", "z">>
WhiteSpace == {" ", "\t", "\n"}

\* String.prototype.toLowerCase, character by character.
LowerChar(c) ==
    IF \E k \in DOMAIN UpperChars : UpperChars[k] = c
    THEN LowerChars[CHOOSE k \in DOMAIN UpperChars : UpperChars[k] = c]
    ELSE c

ToLowerCase(s) == [k \in DOMAIN s |-> LowerChar(s[k])]

\* String.prototype.trim: white space removed from both ends.
RECURSIVE TrimStart(_)
TrimStart(s) ==
    IF s = <<>> THEN s
    ELSE IF Head(s) \in WhiteSpace THEN TrimStart(Tail(s)) ELSE s

RECURSIVE TrimEnd(_)
TrimEnd(s) ==
    IF s = <<>> THEN s
    ELSE IF s[Len(s)] \in WhiteSpace THEN TrimEnd(SubSeq(s, 1, Len(s) - 1)) ELSE s

Trim(s) == TrimEnd(TrimStart(s))

\* String.prototype.replace(/c/g, entity): one left-to-right pass over s that
\* puts entity in place of every occurrence of the character c.
RECURSIVE ReplaceAll(_, _, _)
ReplaceAll(s, c, entity) ==
    IF s = <<>> THEN <<>>
    ELSE (IF Head(s) = c THEN entity ELSE <<Head(s)>>) \o ReplaceAll(Tail(s), c, entity)

X_amp == <<"&", "a", "m", "p", ";">>
X_lt == <<"&", "l", "t", ";">>
X_gt == <<"&", "g", "t", ";">>
X_quot == <<"&", "q", "u", "o", "t", ";">>
X_apos == <<"&", "a", "p", "o", "s", ";">>

\* Mutant: the ampersand pass runs last, over the entities already produced.
EscapeXmlAmpLast(unsafe) ==
    ReplaceAll(ReplaceAll(ReplaceAll(ReplaceAll(ReplaceAll(unsafe,
        "<", X_lt), ">", X_gt), "\"", X_quot), "'", X_apos), "&", X_amp)

\* escapeXml: the five replace passes, in the order of the source.
EscapeXml(unsafe) ==
    ReplaceAll(ReplaceAll(ReplaceAll(ReplaceAll(ReplaceAll(unsafe,
        "&", X_amp), "<", X_lt), ">", X_gt), "\"", X_quot), "'", X_apos)

\* ---------------------------------------------------------------- JS values
\* A value of a request-body field, as express.json() parses it.
JsUndefined == [t |-> "undefined", s |-> <<>>, n |-> 0]
JsStr(chars) == [t |-> "string", s |-> chars, n |-> 0]
JsNum(k) == [t |-> "number", s |-> <<>>, n |-> k]
JsBool(b) == [t |-> "boolean", s |-> <<>>, n |-> IF b THEN 1 ELSE 0]
JsFunction == [t |-> "function", s |-> <<>>, n |-> 0]
JsObject == [t |-> "object", s |-> <<>>, n |-> 0]

\* ToBoolean, as used by ||, &&, ! and if.
Truthy(v) ==
    CASE v.t = "undefined" -> FALSE
      [] v.t = "string" -> v.s # <<>>
      [] v.t = "number" -> v.n # 0
      [] v.t = "boolean" -> v.n # 0
      [] OTHER -> TRUE

\* a || b
JsOr(a, b) == IF Truthy(a) THEN a ELSE b

\* obj[key] on an object literal: own properties first, then the properties
\* every object inherits from Object.prototype.
ObjectGet(own, key) ==
    IF key \in DOMAIN own THEN JsStr(own[key])
    ELSE IF key = S_constructor THEN JsFunction
    ELSE IF key = <<"_", "_", "p", "r", "o", "t", "o", "_", "_">> THEN JsObject
    ELSE JsUndefined

\* --------------------------------------------------------------- buildSSML
\* The document buildSSML returns, as the sequence of its tags and its text
\* node.  An interpolated empty string contributes no element.
XmlAttr(name, value) == [name |-> name, value |-> value]
OpenTag(name, attrs) == [kind |-> "open", name |-> name, attrs |-> attrs, text |-> <<>>]
CloseTag(name) == [kind |-> "close", name |-> name, attrs |-> <<>>, text |-> <<>>]
EmptyTag(name, attrs) == [kind |-> "empty", name |-> name, attrs |-> attrs, text |-> <<>>]
TextNode(chars) == [kind |-> "text", name |-> "", attrs |-> <<>>, text |-> chars]

\* voice.substring(0, 5)
Locale(voice) == SubSeq(voice, 1, IF Len(voice) < 5 THEN Len(voice) ELSE 5)

\* [rate ? `rate="..."` : null, pitch ? ... : null, volume ? ... : null].filter(Boolean)
HasValue(a) == Truthy(a.value)
AttrOfValue(a) == XmlAttr(a.name, a.value.s)
ProsodyAttrs(rate, pitch, volume) ==
    LET given == SelectSeq(<<XmlAttr("rate", rate), XmlAttr("pitch", pitch),
                             XmlAttr("volume", volume)>>, HasValue)
    IN [k \in DOMAIN given |-> AttrOfValue(given[k])]

OpenProsody(prosodyAttrs) ==
    IF prosodyAttrs # <<>> THEN <<OpenTag("prosody", prosodyAttrs)>> ELSE <<>>

\* Mutant: the closing prosody tag is emitted whatever the attributes.
CloseProsodyAlways(prosodyAttrs) == <<CloseTag("prosody")>>

CloseProsody(prosodyAttrs) ==
    IF prosodyAttrs # <<>> THEN <<CloseTag("prosody")>> ELSE <<>>

ExpressOpen(style, styleDegree) ==
    IF Truthy(style)
    THEN <<OpenTag("mstts:express-as",
                   <<XmlAttr("style", style.s)>>
                   \o (IF Truthy(styleDegree) THEN <<XmlAttr("styledegree", styleDegree.s)>>
                       ELSE <<>>))>>
    ELSE <<>>

ExpressClose(style) == IF Truthy(style) THEN <<CloseTag("mstts:express-as")>> ELSE <<>>

Silence(type, ms) ==
    EmptyTag("mstts:silence",
             <<XmlAttr("type", type), XmlAttr("value", <<ToString(ms), "m", "s">>)>>)

BuildSSMLDocument(text, o) ==
    LET prosodyAttrs == ProsodyAttrs(o.rate, o.pitch, o.volume) IN
    <<OpenTag("speak", <<XmlAttr("version", <<"1", ".", "0">>),
                         XmlAttr("xml:lang", Locale(o.voice))>>),
      OpenTag("voice", <<XmlAttr("name", o.voice)>>),
      Silence("Leading", o.leadingSilenceMs),
      Silence("Tailing", o.trailingSilenceMs)>>
    \o ExpressOpen(o.style, o.styleDegree)
    \o OpenProsody(prosodyAttrs)
    \o <<TextNode(EscapeXml(text))>>
    \o CloseProsody(prosodyAttrs)
    \o ExpressClose(o.style)
    \o <<CloseTag("voice"), CloseTag("speak")>>

\* ------------------------------------------------------------ voice choice
AllowedVoices == {S_alloy, S_echo, S_fable, S_onyx, S_nova, S_shimmer}

\* openai-tts and streaming-openai-tts:
\*   allowed.includes((selectedVoice || "").trim().toLowerCase())
\*       ? selectedVoice.trim().toLowerCase() : "fable"
\* .trim is not a function of a number, a boolean or an object: TypeError.
SelectAllowedVoice(selectedVoice) ==
    LET x == JsOr(selectedVoice, JsStr(<<>>)) IN
    IF x.t # "string" THEN [threw |-> TRUE, voice |-> JsUndefined]
    ELSE IF ToLowerCase(Trim(x.s)) \in AllowedVoices
         THEN [threw |-> FALSE, voice |-> JsStr(ToLowerCase(Trim(selectedVoice.s)))]
         ELSE [threw |-> FALSE, voice |-> JsStr(S_fable)]

\* azureTextToSpeech: voiceMap[(selectedVoice || "").trim().toLowerCase()] || "fable"
AzureTtsVoiceMap == [k \in AllowedVoices |-> k]

SelectMappedVoice(selectedVoice) ==
    LET x == JsOr(selectedVoice, JsStr(<<>>)) IN
    IF x.t # "string" THEN [threw |-> TRUE, voice |-> JsUndefined]
    ELSE [threw |-> FALSE,
          voice |-> JsOr(ObjectGet(AzureTtsVoiceMap, ToLowerCase(Trim(x.s))), JsStr(S_fable))]

\* elevenlabs: voiceMap[(selectedLanguage || "").trim().toLowerCase()]
ElevenVoiceMap ==
    (S_espagnol :> E_espagnol) @@ (S_francais :> E_francais) @@ (S_anglais :> E_anglais)

ElevenVoiceId(selectedLanguage) ==
    LET x == JsOr(selectedLanguage, JsStr(<<>>)) IN
    IF x.t # "string" THEN [threw |-> TRUE, voice |-> JsUndefined]
    ELSE [threw |-> FALSE, voice |-> ObjectGet(ElevenVoiceMap, ToLowerCase(Trim(x.s)))]

\* azureTTS-Scaleway:
\*   lang = (selectedLanguage || "").trim().toLowerCase()
\*   voice = (selectedVoice && selectedVoice.trim()) || voiceMap[lang] || default
ScalewayVoiceMap ==
    (S_francais :> V_Remy) @@ (S_espagnol :> V_Elvira) @@ (S_anglais :> V_Jenny)

ScalewayVoice(selectedLanguage, selectedVoice) ==
    LET x == JsOr(selectedLanguage, JsStr(<<>>)) IN
    IF x.t # "string" THEN [threw |-> TRUE, voice |-> JsUndefined]
    ELSE IF Truthy(selectedVoice) /\ selectedVoice.t # "string"
         THEN [threw |-> TRUE, voice |-> JsUndefined]
    ELSE LET override == IF Truthy(selectedVoice) THEN JsStr(Trim(selectedVoice.s))
                         ELSE selectedVoice
         IN [threw |-> FALSE,
             voice |-> JsOr(JsOr(override, ObjectGet(ScalewayVoiceMap, ToLowerCase(Trim(x.s)))),
                            JsStr(V_Remy))]

\* ------------------------------------------------------------ upstream errors
\* What a rejected upstream call carries: response is error.response.status
\* (0 when the error has no response), data is error.response.data.
NetworkError == [response |-> 0, message |-> "socket hang up", data |-> ""]
HttpError == [response |-> 429, message |-> "Request failed with status code 429", data |-> "rate limited"]
SdkError == [response |-> 0, message |-> "429 Rate limit reached", data |-> ""]
TypeError == [response |-> 0, message |-> "TypeError", data |-> ""]
ReferenceError == [response |-> 0, message |-> "style is not defined", data |-> ""]

\* axios with responseType 'stream': error.response.data is the upstream
\* IncomingMessage, an object JSON.stringify rejects as circular.
CircularData == "<IncomingMessage>"
StreamHttpError == [response |-> 401, message |-> "Request failed with status code 401", data |-> CircularData]

\* An upstream JSON body that has an `error` member of its own.
UpstreamErrorJson == "{error: upstream}"
ApiError == [response |-> 400, message |-> "Request failed with status code 400", data |-> UpstreamErrorJson]

AxiosErrors == {NetworkError, HttpError}   \* axios: error.response when upstream answered
AxiosJsonErrors == AxiosErrors \cup {ApiError}
AxiosStreamErrors == {NetworkError, StreamHttpError}
SdkErrors == {SdkError}                    \* openai / vertex / pg clients: no error.response

\* error?.response?.status || 500
MirroredStatus(err) == IF err.response # 0 THEN err.response ELSE 500

\* ------------------------------------------------------------ response sink
\* A body handed to res.json / res.send; "" stands for a field the body lacks.
NoBody == [kind |-> "none", error |-> "", details |-> "", message |-> "", data |-> ""]
ErrorBody(error, details, message) ==
    [kind |-> "json", error |-> error, details |-> details, message |-> message, data |-> ""]
DataBody(data) == [kind |-> "json", error |-> "", details |-> "", message |-> "", data |-> data]
AudioBody == [kind |-> "audio", error |-> "", details |-> "", message |-> "", data |-> "mp3"]
HtmlBody == [kind |-> "html", error |-> "", details |-> "", message |-> "", data |-> "<pre>"]

\* `data: ${JSON.stringify({<kind>: <text>})}\n\n`: sse marks the "data: "
\* prefix and the blank line; kind and text are the JSON object written.
SseFrame(kind, text) == [sse |-> TRUE, kind |-> kind, text |-> text]
DeltaFrame(delta) == SseFrame("delta", delta)
ChoicesFrame(delta) == SseFrame("choices", delta)
UsageFrame == SseFrame("usage", "0")
ThreadIdFrame(id) == SseFrame("threadId", id)
ErrorFrame(message) == SseFrame("error", message)
DoneFrame == SseFrame("done", "[DONE]")
RawChunk(chunk) == [sse |-> FALSE, kind |-> "raw", text |-> chunk]

\* The http.ServerResponse of one request.  frames are the res.write calls
\* made; closedAt is the number of upstream events consumed when the client
\* closed the connection (-1 while it is open).
NewResponse ==
    [headersSent |-> FALSE, statusCode |-> 200, wireStatus |-> 0, contentType |-> "",
     frames |-> <<>>, ended |-> 0, body |-> NoBody, lateJson |-> 0,
     writesAfterEnd |-> 0, destroyed |-> FALSE, closedAt |-> -1]

SetContentType(r, ct) == [r EXCEPT !.contentType = ct]

\* The status line and the headers go on the wire once, with the statusCode
\* the response has at that moment.
SendHeaders(r) ==
    IF r.headersSent THEN r
    ELSE [r EXCEPT !.headersSent = TRUE, !.wireStatus = r.statusCode]

FlushHeaders(r) == SendHeaders(r)

ResWrite(r, frame) ==
    IF r.ended > 0 THEN [r EXCEPT !.writesAfterEnd = @ + 1]
    ELSE [SendHeaders(r) EXCEPT !.frames = Append(@, frame)]

ResEnd(r) == [SendHeaders(r) EXCEPT !.ended = @ + 1]

\* res.status(status).json(body): status() assigns statusCode; json() sets
\* Content-Type through setHeader, which throws ERR_HTTP_HEADERS_SENT once the
\* headers are on the wire.
JsonThrows(r) == r.headersSent

ResJson(r, status, body) ==
    IF JsonThrows(r) THEN [r EXCEPT !.statusCode = status, !.lateJson = @ + 1]
    ELSE [r EXCEPT !.statusCode = status, !.headersSent = TRUE, !.wireStatus = status,
                   !.contentType = "application/json", !.body = body, !.ended = @ + 1]

\* res.setHeader("Content-Type", "audio/mpeg"); res.send(buffer)
ResSendAudio(r) ==
    [SendHeaders(SetContentType(r, "audio/mpeg")) EXCEPT !.body = AudioBody, !.ended = @ + 1]

\* Mutant: the headers are set but not flushed.
SseHeadersNotFlushed(r) == SetContentType(r, "text/event-stream")

SseHeaders(r) == FlushHeaders(SetContentType(r, "text/event-stream"))

\* The catch of the router's outer try: status, then details (JSON.stringify of
\* an object payload, which throws on a circular one), then the JSON answer.
CatchThrows(r, err) == err.data = CircularData \/ JsonThrows(r)

OuterCatch(r, err) ==
    IF err.data = CircularData THEN r
    ELSE ResJson(r, MirroredStatus(err), ErrorBody("API request error", err.data, err.message))

\* ------------------------------------------------------------------- inputs
Deltas == {"a", "b"}
StreamEvents == Deltas \cup {""}      \* "" : an event that carries no delta text
Chunks == {"c1", "c2"}
MessageIds == {"m1", "m2"}
ThreadIds == {"th1"}

SseServices == {"vertexChat", "openaiSimulateur", "openaiAnalyse", "assistantOpenaiAnalyseStreaming"}
HandledServices ==
    {"azureOpenaiSimulateur", "vertexChat", "openaiSimulateur", "assistantOpenaiAnalyse",
     "assistantOpenaiAnalyseStreaming", "openaiAnalyse", "azureOpenaiAnalyse", "openai-tts",
     "azureTTS-Scaleway", "streaming-openai-tts", "azureTextToSpeech", "userList",
     "updateUserGroup", "elevenlabs"}
UnknownServices == {"bogus", "vertexchat"}
Services == HandledServices \cup UnknownServices

EnvVars == {"GOOGLE_SERVICE_ACCOUNT_KEY", "OPENAI_API_KEY_SIMULATEUR",
            "AZURE_TTS_KEY_AI_SERVICES", "AZURE_REGION_AI_SERVICES", "ELEVENLAB_API_KEY"}

\* ------------------------------------------------------------ request bodies
NoMessages == [present |-> FALSE, list |-> <<>>]
Messages(list) == [present |-> TRUE, list |-> list]
MessageLists == UNION {[1..n -> MessageIds] : n \in 0..MaxMessages}

DefaultBody ==
    [messages |-> Messages(<<"m1">>), stream |-> JsUndefined, threadId |-> JsUndefined,
     text |-> JsUndefined, selectedVoice |-> JsUndefined, selectedLanguage |-> JsUndefined]

TextInputs == {JsUndefined, JsStr(<<>>), JsStr(S_Bonjour)}
VoiceInputs ==
    {JsUndefined, JsStr(<<>>), JsStr(S_NovaPadded), JsStr(S_ECHO), JsStr(S_fable),
     JsStr(S_bogus), JsStr(S_constructor), JsNum(123)}
LanguageInputs ==
    {JsUndefined, JsStr(S_EspagnolPadded), JsStr(S_francais), JsStr(S_anglais),
     JsStr(S_italien), JsStr(S_constructor), JsNum(7)}
OverrideVoiceInputs == {JsUndefined, JsStr(V_DenisePadded), JsStr(<<" ">>), JsNum(123)}

\* The bodies a request to each service is tried with: the fields the handler
\* reads vary, the others keep their default.
BodiesFor(svc) ==
    CASE svc = "vertexChat" ->
           {[DefaultBody EXCEPT !.messages = m, !.stream = st] :
               m \in {NoMessages, Messages(<<"m1">>)},
               st \in {JsUndefined, JsBool(FALSE), JsBool(TRUE)}}
      [] svc = "assistantOpenaiAnalyseStreaming" ->
           {[DefaultBody EXCEPT !.messages = m, !.threadId = t] :
               m \in {NoMessages} \cup {Messages(l) : l \in MessageLists},
               t \in {JsUndefined, JsStr(<<>>), JsStr(S_t1)}}
      [] svc \in {"openai-tts", "streaming-openai-tts", "azureTextToSpeech"} ->
           {[DefaultBody EXCEPT !.text = t, !.selectedVoice = v] :
               t \in TextInputs, v \in VoiceInputs}
      [] svc = "azureTTS-Scaleway" ->
           {[DefaultBody EXCEPT !.text = t, !.selectedLanguage = l, !.selectedVoice = v] :
               t \in TextInputs, l \in LanguageInputs, v \in OverrideVoiceInputs}
      [] svc = "elevenlabs" ->
           {[DefaultBody EXCEPT !.text = t, !.selectedLanguage = l] :
               t \in TextInputs, l \in LanguageInputs}
      [] OTHER -> {DefaultBody, [DefaultBody EXCEPT !.messages = NoMessages]}

\* process.env: the variables that are set.  A service is tried with all of
\* them set and with each one it reads missing.
EnvReadBy(svc) ==
    CASE svc = "openai-tts" -> {"OPENAI_API_KEY_SIMULATEUR"}
      [] svc = "azureTTS-Scaleway" -> {"AZURE_TTS_KEY_AI_SERVICES", "AZURE_REGION_AI_SERVICES"}
      [] svc = "elevenlabs" -> {"ELEVENLAB_API_KEY"}
      [] OTHER -> {}

\* The variables the module's top-level code needs to get to app.listen.
EnvReadAtStartup == {"GOOGLE_SERVICE_ACCOUNT_KEY"}

EnvFor(svc) == {EnvVars} \cup {EnvVars \ {v} : v \in EnvReadBy(svc) \cup EnvReadAtStartup}

NoRequest == [service |-> "", body |-> DefaultBody]

\* An upstream call or datastore query the handler issued.
Call(api, arg) == [api |-> api, arg |-> arg]

\* -------------------------------------------------------------------- state
VARIABLES
    process,    \* "starting" | "running" | "crashed" | "exited": the node process
    env,        \* the environment variables that are set
    req,        \* req[i]: service name and parsed body of request i
    pc,         \* pc[i]: where the handler of request i is suspended
    res,        \* res[i]: the response sink of request i
    calls,      \* calls[i]: upstream calls and datastore queries issued, in order
    received,   \* received[i]: upstream stream events / chunks consumed, in order
    poll,       \* poll[i]: last run status retrieved and number of status queries
    appended,   \* appended[i]: request messages appended to the existing thread
    failure,    \* failure[i]: the upstream failure request i met, and where
    ssml        \* the text handed to buildSSML and the escaped text it embeds

vars == <<process, env, req, pc, res, calls, received, poll, appended, failure, ssml>>

NoPoll == [status |-> "none", count |-> 0]

\* at: "none", "call" (an awaited upstream call rejected), "connect" (the call
\* that returns the upstream stream rejected) or "stream" (the stream failed
\* while it was being consumed).
NoFailure == [at |-> "none", err |-> NetworkError]

\* buildSSML has not been called.
\* buildSSML called with a text and a voice only, as azureTTS-Scaleway calls it.
NoOptions ==
    [voice |-> V_Remy, style |-> JsUndefined, styleDegree |-> JsUndefined,
     rate |-> JsUndefined, pitch |-> JsUndefined, volume |-> JsUndefined,
     leadingSilenceMs |-> 0, trailingSilenceMs |-> 0]

NoSsml == [text |-> <<>>, opts |-> NoOptions, escaped |-> <<>>, doc |-> <<>>, built |-> FALSE]

\* The process is being started; one request is waiting for it, the other
\* slots stay empty.
Init ==
    /\ ssml = NoSsml
    /\ process = "starting"
    /\ \E svc \in Services :
         /\ env \in EnvFor(svc)
         /\ \E b \in BodiesFor(svc) :
              req = [i \in Requests |-> IF i = 1 THEN [service |-> svc, body |-> b] ELSE NoRequest]
    /\ pc = [i \in Requests |-> IF i = 1 THEN "start" ELSE "idle"]
    /\ res = [i \in Requests |-> NewResponse]
    /\ calls = [i \in Requests |-> <<>>]
    /\ received = [i \in Requests |-> <<>>]
    /\ poll = [i \in Requests |-> NoPoll]
    /\ appended = [i \in Requests |-> 0]
    /\ failure = [i \in Requests |-> NoFailure]

\* ------------------------------------------------------------ action helpers
Running(i, at, svc) == process = "running" /\ pc[i] = at /\ req[i].service = svc

Goto(i, at) == pc' = [pc EXCEPT ![i] = at]
\* Mutant: one sink object shared by every request.
RespondShared(i, r) == res' = [j \in Requests |-> r]

Respond(i, r) == res' = [res EXCEPT ![i] = r]
Issue(i, api, arg) == calls' = [calls EXCEPT ![i] = Append(@, Call(api, arg))]
Receive(i, ev) == received' = [received EXCEPT ![i] = Append(@, ev)]
Fail(i, at, err) == failure' = [failure EXCEPT ![i] = [at |-> at, err |-> err]]
NoFail(i) == UNCHANGED failure

\* Mutant: the catch runs the handler again from its start.
CaughtAndRetried(i, r, err) == Respond(i, r) /\ Goto(i, "start")

\* An exception reaches the router's outer catch with the sink in state r.
\* When the catch itself throws, the async handler's promise rejects.
Caught(i, r, err) ==
    /\ Respond(i, OuterCatch(r, err))
    /\ Goto(i, IF CatchThrows(r, err) THEN "rejected" ELSE "done")

\* -------------------------------------------------------------------- startup
\* fs.writeFileSync(keyPath, saKey) throws on an undefined saKey (node 18): the
\* module's top-level code does not complete and the process exits before
\* app.listen.
StartupThrows(e) == "GOOGLE_SERVICE_ACCOUNT_KEY" \notin e

Startup ==
    /\ process = "starting"
    /\ process' = IF StartupThrows(env) THEN "exited" ELSE "running"
    /\ UNCHANGED <<env, req, pc, res, calls, received, poll, appended, failure, ssml>>

\* ----------------------------------------------------------- relay loops
\* Mutant: the loop stops taking upstream items once the client is gone.
LoopStopsOnClose(r) == r.closedAt < 0

\* for await (const part of stream) / response.data.on('data'): the next
\* upstream item is taken whenever there is one; nothing looks at the sink.
LoopTakesNext(r) == TRUE

RelayPcs == {"vertexLoop", "simLoop", "analyseLoop", "asstLoop", "azureRelay"}

\* The client closes the connection while the relay is running.  No handler
\* listens for the response's 'close'.
ClientDisconnect(i) ==
    /\ process = "running" /\ pc[i] \in RelayPcs
    /\ res[i].closedAt < 0
    /\ Respond(i, [res[i] EXCEPT !.closedAt = Len(received[i])])
    /\ UNCHANGED <<process, env, req, pc, calls, received, poll, appended, failure, ssml>>

\* --------------------------------------------- vertexChat (batch + streaming)
\* Mutant: the frame is put in front of the frames already written.
VertexOnItemReordered(r, ev) ==
    IF ev # "" THEN [ResWrite(r, DeltaFrame(ev)) EXCEPT !.frames = <<DeltaFrame(ev)>> \o r.frames]
    ELSE r

\* res.write of one stream item (the body of the for await loop).
VertexOnItem(r, ev) == IF ev # "" THEN ResWrite(r, DeltaFrame(ev)) ELSE r

\* After the loop: the terminator, then res.end().
VertexOnEnd(r) == ResEnd(ResWrite(r, DoneFrame))

\* The catch of the streaming try.
VertexOnError(r, err) ==
    IF ~r.headersSent THEN ResJson(r, 500, ErrorBody(err.message, "", ""))
    ELSE ResEnd(ResWrite(ResWrite(r, ErrorFrame(err.message)), DoneFrame))

VertexChatStart(i) ==
    /\ Running(i, "start", "vertexChat")
    /\ LET b == req[i].body IN
       IF ~b.messages.present
       THEN \* messages.map on undefined
            /\ Caught(i, res[i], TypeError)
            /\ UNCHANGED calls
       ELSE IF b.stream = JsBool(FALSE)
       THEN /\ Issue(i, "vertex.generateContent", JsUndefined)
            /\ Goto(i, "vertexBatch")
            /\ UNCHANGED res
       ELSE /\ Respond(i, SseHeaders(res[i]))
            /\ Issue(i, "vertex.generateContentStream", JsUndefined)
            /\ Goto(i, "vertexConnect")
    /\ UNCHANGED <<process, env, req, received, poll, appended, failure, ssml>>

VertexBatchSettled(i) ==
    /\ Running(i, "vertexBatch", "vertexChat")
    /\ \/ NoFail(i) /\ Respond(i, ResJson(res[i], res[i].statusCode, DataBody("text")))
       \/ \E err \in SdkErrors : Fail(i, "call", err) /\ Respond(i, ResJson(res[i], 500, ErrorBody(err.message, "", "")))
    /\ Goto(i, "done")
    /\ UNCHANGED <<process, env, req, calls, received, poll, appended, ssml>>

VertexConnected(i) ==
    /\ Running(i, "vertexConnect", "vertexChat")
    /\ \/ NoFail(i) /\ Goto(i, "vertexLoop") /\ UNCHANGED res
       \/ \E err \in SdkErrors : Fail(i, "connect", err) /\ Respond(i, VertexOnError(res[i], err)) /\ Goto(i, "done")
    /\ UNCHANGED <<process, env, req, calls, received, poll, appended, ssml>>

VertexNext(i) ==
    /\ Running(i, "vertexLoop", "vertexChat")
    /\ \/ NoFail(i) /\ \E ev \in StreamEvents :
            /\ LoopTakesNext(res[i])
            /\ Len(received[i]) < MaxEvents
            /\ Receive(i, ev)
            /\ Respond(i, VertexOnItem(res[i], ev))
            /\ UNCHANGED pc
       \/ NoFail(i) /\ Respond(i, VertexOnEnd(res[i])) /\ Goto(i, "done") /\ UNCHANGED received
       \/ \E err \in SdkErrors :
            Fail(i, "stream", err) /\ Respond(i, VertexOnError(res[i], err)) /\ Goto(i, "done") /\ UNCHANGED received
    /\ UNCHANGED <<process, env, req, calls, poll, appended, ssml>>

\* ------------------------------------------------------------ openaiSimulateur
SimOnPart(r, ev) == IF ev # "" THEN ResWrite(r, ChoicesFrame(ev)) ELSE r

\* stream.usage?.total_tokens || 0, the usage frame, the terminator, res.end().
SimOnEnd(r) == ResEnd(ResWrite(ResWrite(r, UsageFrame), DoneFrame))

OpenaiSimulateurStart(i) ==
    /\ Running(i, "start", "openaiSimulateur")
    /\ Respond(i, SseHeaders(res[i]))
    /\ Issue(i, "openai.chat.completions.create", JsUndefined)
    /\ Goto(i, "simConnect")
    /\ UNCHANGED <<process, env, req, received, poll, appended, failure, ssml>>

SimConnected(i) ==
    /\ Running(i, "simConnect", "openaiSimulateur")
    /\ \/ NoFail(i) /\ Goto(i, "simLoop") /\ UNCHANGED res
       \/ \E err \in SdkErrors : Fail(i, "connect", err) /\ Caught(i, res[i], err)
    /\ UNCHANGED <<process, env, req, calls, received, poll, appended, ssml>>

SimNext(i) ==
    /\ Running(i, "simLoop", "openaiSimulateur")
    /\ \/ NoFail(i) /\ \E ev \in StreamEvents :
            /\ LoopTakesNext(res[i])
            /\ Len(received[i]) < MaxEvents
            /\ Receive(i, ev)
            /\ Respond(i, SimOnPart(res[i], ev))
            /\ UNCHANGED pc
       \/ NoFail(i) /\ Respond(i, SimOnEnd(res[i])) /\ Goto(i, "done") /\ UNCHANGED received
       \/ \E err \in SdkErrors : Fail(i, "stream", err) /\ Caught(i, res[i], err) /\ UNCHANGED received
    /\ UNCHANGED <<process, env, req, calls, poll, appended, ssml>>

\* --------------------------------------------------------------- openaiAnalyse
\* Mutant: the frame of a delta is written twice.
AnalyseOnPartTwice(r, ev) ==
    IF ev # "" THEN ResWrite(ResWrite(r, DeltaFrame(ev)), DeltaFrame(ev)) ELSE r

AnalyseOnPart(r, ev) == IF ev # "" THEN ResWrite(r, DeltaFrame(ev)) ELSE r

AnalyseOnEnd(r) == ResEnd(ResWrite(r, DoneFrame))

\* The catch of the handler's own try: one fixed error frame, then res.end().
AnalyseOnError(r, err) == ResEnd(ResWrite(r, ErrorFrame("Errore durante lo streaming AI.")))

OpenaiAnalyseStart(i) ==
    /\ Running(i, "start", "openaiAnalyse")
    /\ Respond(i, SseHeaders(res[i]))
    /\ Issue(i, "openai.chat.completions.create", JsUndefined)
    /\ Goto(i, "analyseConnect")
    /\ UNCHANGED <<process, env, req, received, poll, appended, failure, ssml>>

AnalyseConnected(i) ==
    /\ Running(i, "analyseConnect", "openaiAnalyse")
    /\ \/ NoFail(i) /\ Goto(i, "analyseLoop") /\ UNCHANGED res
       \/ \E err \in SdkErrors : Fail(i, "connect", err) /\ Respond(i, AnalyseOnError(res[i], err)) /\ Goto(i, "done")
    /\ UNCHANGED <<process, env, req, calls, received, poll, appended, ssml>>

AnalyseNext(i) ==
    /\ Running(i, "analyseLoop", "openaiAnalyse")
    /\ \/ NoFail(i) /\ \E ev \in StreamEvents :
            /\ LoopTakesNext(res[i])
            /\ Len(received[i]) < MaxEvents
            /\ Receive(i, ev)
            /\ Respond(i, AnalyseOnPart(res[i], ev))
            /\ UNCHANGED pc
       \/ NoFail(i) /\ Respond(i, AnalyseOnEnd(res[i])) /\ Goto(i, "done") /\ UNCHANGED received
       \/ \E err \in SdkErrors :
            Fail(i, "stream", err) /\ Respond(i, AnalyseOnError(res[i], err)) /\ Goto(i, "done") /\ UNCHANGED received
    /\ UNCHANGED <<process, env, req, calls, poll, appended, ssml>>

\* --------------------------------------------- assistantOpenaiAnalyseStreaming
AsstOnEvent(r, ev) == IF ev # "" THEN ResWrite(r, DeltaFrame(ev)) ELSE r

AsstOnEnd(r) == ResEnd(ResWrite(r, DoneFrame))

\* Mutant: the threadId frame is written whether or not the request had one.
AsstOpenStreamAlwaysFrame(r, threadId, id) == ResWrite(SseHeaders(r), ThreadIdFrame(id))

\* Headers, flush, and the threadId frame of a newly created thread.
AsstOpenStream(r, threadId, id) ==
    IF ~Truthy(threadId) THEN ResWrite(SseHeaders(r), ThreadIdFrame(id)) ELSE SseHeaders(r)

AsstStreamingStart(i) ==
    /\ Running(i, "start", "assistantOpenaiAnalyseStreaming")
    /\ LET b == req[i].body IN
       IF Truthy(b.threadId)
       THEN IF ~b.messages.present
            THEN \* for (const msg of undefined)
                 Caught(i, res[i], TypeError) /\ UNCHANGED calls
            ELSE IF b.messages.list = <<>>
            THEN /\ Respond(i, AsstOpenStream(res[i], b.threadId, ""))
                 /\ Issue(i, "openai.threads.runs.createAndStream", b.threadId)
                 /\ Goto(i, "asstConnect")
            ELSE /\ Issue(i, "openai.threads.messages.create", JsStr(<<b.messages.list[1]>>))
                 /\ Goto(i, "asstAppend")
                 /\ UNCHANGED res
       ELSE /\ Issue(i, "openai.threads.create", JsUndefined)
            /\ Goto(i, "asstThread")
            /\ UNCHANGED res
    /\ UNCHANGED <<process, env, req, received, poll, appended, failure, ssml>>

AsstAppended(i) ==
    /\ Running(i, "asstAppend", "assistantOpenaiAnalyseStreaming")
    /\ LET b == req[i].body
           n == appended[i] + 1
       IN \/ /\ NoFail(i)
             /\ appended' = [appended EXCEPT ![i] = n]
             /\ IF n < Len(b.messages.list)
                THEN /\ Issue(i, "openai.threads.messages.create", JsStr(<<b.messages.list[n + 1]>>))
                     /\ UNCHANGED <<pc, res>>
                ELSE /\ Respond(i, AsstOpenStream(res[i], b.threadId, ""))
                     /\ Issue(i, "openai.threads.runs.createAndStream", b.threadId)
                     /\ Goto(i, "asstConnect")
          \/ \E err \in SdkErrors : Fail(i, "call", err) /\ Caught(i, res[i], err) /\ UNCHANGED <<calls, appended>>
    /\ UNCHANGED <<process, env, req, received, poll, ssml>>

AsstThreadCreated(i) ==
    /\ Running(i, "asstThread", "assistantOpenaiAnalyseStreaming")
    /\ \/ NoFail(i) /\ \E id \in ThreadIds :
            /\ Respond(i, AsstOpenStream(res[i], req[i].body.threadId, id))
            /\ Issue(i, "openai.threads.runs.createAndStream", JsStr(<<id>>))
            /\ Goto(i, "asstConnect")
       \/ \E err \in SdkErrors : Fail(i, "call", err) /\ Caught(i, res[i], err) /\ UNCHANGED calls
    /\ UNCHANGED <<process, env, req, received, poll, appended, ssml>>

AsstConnected(i) ==
    /\ Running(i, "asstConnect", "assistantOpenaiAnalyseStreaming")
    /\ \/ NoFail(i) /\ Goto(i, "asstLoop") /\ UNCHANGED res
       \/ \E err \in SdkErrors : Fail(i, "connect", err) /\ Caught(i, res[i], err)
    /\ UNCHANGED <<process, env, req, calls, received, poll, appended, ssml>>

AsstNext(i) ==
    /\ Running(i, "asstLoop", "assistantOpenaiAnalyseStreaming")
    /\ \/ NoFail(i) /\ \E ev \in StreamEvents :
            /\ LoopTakesNext(res[i])
            /\ Len(received[i]) < MaxEvents
            /\ Receive(i, ev)
            /\ Respond(i, AsstOnEvent(res[i], ev))
            /\ UNCHANGED pc
       \/ NoFail(i) /\ Respond(i, AsstOnEnd(res[i])) /\ Goto(i, "done") /\ UNCHANGED received
       \/ \E err \in SdkErrors : Fail(i, "stream", err) /\ Caught(i, res[i], err) /\ UNCHANGED received
    /\ UNCHANGED <<process, env, req, calls, poll, appended, ssml>>

\* Express 5's default error handler: it destroys the socket of a response
\* whose headers are sent, and answers 500 with an HTML page otherwise.
DefaultErrorHandler(r) ==
    IF r.headersSent THEN [r EXCEPT !.destroyed = TRUE]
    ELSE [r EXCEPT !.statusCode = 500, !.headersSent = TRUE, !.wireStatus = 500,
                   !.contentType = "text/html", !.body = HtmlBody, !.ended = @ + 1]

\* The async handler's promise rejected (its catch threw) and nothing awaits
\* it.  Express 4 leaves it an unhandled rejection, which ends the node 18
\* process; Express 5 hands it to the default error handler.
HandlerRejected(i) ==
    /\ process = "running" /\ pc[i] = "rejected"
    /\ \/ process' = "crashed" /\ UNCHANGED res
       \/ Respond(i, DefaultErrorHandler(res[i])) /\ UNCHANGED process
    /\ Goto(i, "done")
    /\ UNCHANGED <<env, req, calls, received, poll, appended, failure, ssml>>

\* ------------------------------------ azureOpenaiSimulateur (raw passthrough)
\* Mutant: the chunk is wrapped in an SSE frame.
AzureOnDataFramed(r, chunk) == ResWrite(r, SseFrame("raw", chunk))

AzureOnData(r, chunk) == ResWrite(r, RawChunk(chunk))

AzureOnEnd(r) == ResEnd(r)

AzureSimulateurStart(i) ==
    /\ Running(i, "start", "azureOpenaiSimulateur")
    /\ Issue(i, "axios.post azure chat stream", JsUndefined)
    /\ Goto(i, "azureConnect")
    /\ UNCHANGED <<process, env, req, res, received, poll, appended, failure, ssml>>

\* The post resolved: headers are set (not flushed) and the two listeners
\* registered; or it rejected into the outer catch.
AzureConnected(i) ==
    /\ Running(i, "azureConnect", "azureOpenaiSimulateur")
    /\ \/ NoFail(i) /\ Respond(i, SetContentType(res[i], "text/event-stream")) /\ Goto(i, "azureRelay")
       \/ \E err \in AxiosStreamErrors : Fail(i, "connect", err) /\ Caught(i, res[i], err)
    /\ UNCHANGED <<process, env, req, calls, received, poll, appended, ssml>>

AzureData(i) ==
    /\ Running(i, "azureRelay", "azureOpenaiSimulateur")
    /\ \E c \in Chunks :
         /\ LoopTakesNext(res[i])
         /\ Len(received[i]) < MaxEvents
         /\ Receive(i, c)
         /\ Respond(i, AzureOnData(res[i], c))
    /\ UNCHANGED <<process, env, req, pc, calls, poll, appended, failure, ssml>>

AzureEnd(i) ==
    /\ Running(i, "azureRelay", "azureOpenaiSimulateur")
    /\ Respond(i, AzureOnEnd(res[i]))
    /\ Goto(i, "done")
    /\ UNCHANGED <<process, env, req, calls, received, poll, appended, failure, ssml>>

\* The upstream stream emits 'error': no listener is registered for it, so
\* the emitter throws and the uncaught exception ends the process.
AzureError(i) ==
    /\ Running(i, "azureRelay", "azureOpenaiSimulateur")
    /\ process' = "crashed"
    /\ Fail(i, "stream", NetworkError)
    /\ UNCHANGED <<env, req, pc, res, calls, received, poll, appended, ssml>>

\* -------------------------------------- assistantOpenaiAnalyse (poll until done)
ActiveStatuses == {"queued", "in_progress"}
TerminalStatuses == {"completed", "failed", "cancelled", "expired"}
RunStatuses == ActiveStatuses \cup TerminalStatuses

\* while (status.status !== "completed" && status.status !== "failed")
PollAgain(status) == status # "completed" /\ status # "failed"

\* Mutant: the failure test compares with a status the API never reports.
PollFailedWrongLiteral(status) == status = "error"

\* if (status.status !== "completed") return res.status(500).json(...)
PollFailed(status) == status # "completed"

AssistantAnalyseStart(i) ==
    /\ Running(i, "start", "assistantOpenaiAnalyse")
    /\ Issue(i, "openai.threads.create", JsUndefined)
    /\ Goto(i, "pollThread")
    /\ UNCHANGED <<process, env, req, res, received, poll, appended, failure, ssml>>

PollThreadCreated(i) ==
    /\ Running(i, "pollThread", "assistantOpenaiAnalyse")
    /\ \/ NoFail(i) /\ Issue(i, "openai.threads.runs.create", JsUndefined) /\ Goto(i, "pollRun") /\ UNCHANGED res
       \/ \E err \in SdkErrors : Fail(i, "call", err) /\ Caught(i, res[i], err) /\ UNCHANGED calls
    /\ UNCHANGED <<process, env, req, received, poll, appended, ssml>>

PollRunCreated(i) ==
    /\ Running(i, "pollRun", "assistantOpenaiAnalyse")
    /\ \/ NoFail(i) /\ Goto(i, "pollSleep") /\ UNCHANGED res
       \/ \E err \in SdkErrors : Fail(i, "call", err) /\ Caught(i, res[i], err)
    /\ UNCHANGED <<process, env, req, calls, received, poll, appended, ssml>>

\* The 1 s timer fired: the next status query goes out.
PollTimerFired(i) ==
    /\ Running(i, "pollSleep", "assistantOpenaiAnalyse")
    /\ poll[i].count < MaxPolls
    /\ Issue(i, "openai.threads.runs.retrieve", JsUndefined)
    /\ poll' = [poll EXCEPT ![i].count = @ + 1]
    /\ Goto(i, "pollRetrieve")
    /\ UNCHANGED <<process, env, req, res, received, appended, failure, ssml>>

\* The status query settled.  A run that reached a terminal status keeps it.
PollRetrieved(i) ==
    /\ Running(i, "pollRetrieve", "assistantOpenaiAnalyse")
    /\ \/ NoFail(i) /\ \E st \in RunStatuses :
            /\ poll[i].status \in TerminalStatuses => st = poll[i].status
            /\ poll' = [poll EXCEPT ![i].status = st]
            /\ IF PollAgain(st)
               THEN Goto(i, "pollSleep") /\ UNCHANGED <<res, calls>>
               ELSE IF PollFailed(st)
               THEN /\ Respond(i, ResJson(res[i], 500, ErrorBody("Assistant run failed", st, "")))
                    /\ Goto(i, "done")
                    /\ UNCHANGED calls
               ELSE /\ Issue(i, "openai.threads.messages.list", JsUndefined)
                    /\ Goto(i, "pollMessages")
                    /\ UNCHANGED res
       \/ \E err \in SdkErrors : Fail(i, "call", err) /\ Caught(i, res[i], err) /\ UNCHANGED <<calls, poll>>
    /\ UNCHANGED <<process, env, req, received, appended, ssml>>

PollMessagesListed(i) ==
    /\ Running(i, "pollMessages", "assistantOpenaiAnalyse")
    /\ \/ NoFail(i) /\ Respond(i, ResJson(res[i], res[i].statusCode, DataBody("answer"))) /\ Goto(i, "done")
       \/ \E err \in SdkErrors : Fail(i, "call", err) /\ Caught(i, res[i], err)
    /\ UNCHANGED <<process, env, req, calls, received, poll, appended, ssml>>

\* ----------------------------------------------------- azureOpenaiAnalyse (batch)
AzureAnalyseStart(i) ==
    /\ Running(i, "start", "azureOpenaiAnalyse")
    /\ Issue(i, "axios.post azure chat", JsUndefined)
    /\ Goto(i, "azureAnalyse")
    /\ UNCHANGED <<process, env, req, res, received, poll, appended, failure, ssml>>

\* res.status(err.response?.status || 500).json(err.response?.data || {error: ...})
\* The upstream body, when there is one, is the whole answer: it has an
\* `error` member only when the upstream put one in it.
AzureAnalyseError(r, err) ==
    ResJson(r, MirroredStatus(err),
            IF err.data = UpstreamErrorJson THEN ErrorBody("upstream", "", "")
            ELSE IF err.data # "" THEN DataBody(err.data)
            ELSE ErrorBody("Errore interno Azure Analyse", "", ""))

AzureAnalyseSettled(i) ==
    /\ Running(i, "azureAnalyse", "azureOpenaiAnalyse")
    /\ \/ NoFail(i) /\ Respond(i, ResJson(res[i], res[i].statusCode, DataBody("completion")))
       \/ \E err \in AxiosJsonErrors : Fail(i, "call", err) /\ Respond(i, AzureAnalyseError(res[i], err))
    /\ Goto(i, "done")
    /\ UNCHANGED <<process, env, req, calls, received, poll, appended, ssml>>

\* ------------------------------------------------------------------ openai-tts
OpenaiTtsStart(i) ==
    /\ Running(i, "start", "openai-tts")
    /\ LET b == req[i].body
           v == SelectAllowedVoice(b.selectedVoice)
       IN IF "OPENAI_API_KEY_SIMULATEUR" \notin env
          THEN /\ Respond(i, ResJson(res[i], 500, ErrorBody("OpenAI API key missing", "", "")))
               /\ Goto(i, "done") /\ UNCHANGED calls
          ELSE IF ~Truthy(b.text)
          THEN /\ Respond(i, ResJson(res[i], 400, ErrorBody("Text is required", "", "")))
               /\ Goto(i, "done") /\ UNCHANGED calls
          ELSE IF v.threw
          THEN Caught(i, res[i], TypeError) /\ UNCHANGED calls
          ELSE /\ Issue(i, "axios.post openai speech", v.voice)
               /\ Goto(i, "openaiTts")
               /\ UNCHANGED res
    /\ UNCHANGED <<process, env, req, received, poll, appended, failure, ssml>>

OpenaiTtsSettled(i) ==
    /\ Running(i, "openaiTts", "openai-tts")
    /\ \/ NoFail(i) /\ Respond(i, ResSendAudio(res[i]))
       \/ \E err \in AxiosErrors :
            Fail(i, "call", err) /\ Respond(i, ResJson(res[i], MirroredStatus(err), ErrorBody("OpenAI TTS failed", err.message, "")))
    /\ Goto(i, "done")
    /\ UNCHANGED <<process, env, req, calls, received, poll, appended, ssml>>

\* ----------------------------------------------------------- azureTTS-Scaleway
\* The handler reads the undeclared identifier `style` right after choosing
\* the voice: a ReferenceError, caught by the router's outer catch, so the
\* synthesis call that follows in the source is never reached.
AzureTtsScalewayStart(i) ==
    /\ Running(i, "start", "azureTTS-Scaleway")
    /\ LET b == req[i].body
           v == ScalewayVoice(b.selectedLanguage, b.selectedVoice)
       IN IF ~Truthy(b.text)
          THEN /\ Respond(i, ResJson(res[i], 400, ErrorBody("Text is required", "", "")))
               /\ Goto(i, "done")
          ELSE IF {"AZURE_TTS_KEY_AI_SERVICES", "AZURE_REGION_AI_SERVICES"} \ env # {}
          THEN /\ Respond(i, ResJson(res[i], 500, ErrorBody("Missing Azure Speech env vars", "", "")))
               /\ Goto(i, "done")
          ELSE IF v.threw
          THEN Caught(i, res[i], TypeError)
          ELSE Caught(i, res[i], ReferenceError)
    /\ UNCHANGED <<process, env, req, calls, received, poll, appended, failure, ssml>>

\* -------------------------------------------------------- streaming-openai-tts
StreamingTtsStart(i) ==
    /\ Running(i, "start", "streaming-openai-tts")
    /\ LET b == req[i].body
           v == SelectAllowedVoice(b.selectedVoice)
       IN IF ~Truthy(b.text)
          THEN /\ Respond(i, ResJson(res[i], 400, ErrorBody("Text is required", "", "")))
               /\ Goto(i, "done") /\ UNCHANGED calls
          ELSE IF v.threw
          THEN Caught(i, res[i], TypeError) /\ UNCHANGED calls
          ELSE /\ Issue(i, "openai.audio.speech.create", v.voice)
               /\ Goto(i, "streamingTts")
               /\ UNCHANGED res
    /\ UNCHANGED <<process, env, req, received, poll, appended, failure, ssml>>

\* The call resolved: headers set, ttsResp.body.pipe(res); or it rejected.
StreamingTtsSettled(i) ==
    /\ Running(i, "streamingTts", "streaming-openai-tts")
    /\ \/ NoFail(i) /\ Respond(i, SetContentType(res[i], "audio/mpeg")) /\ Goto(i, "pipe")
       \/ \E err \in SdkErrors :
            Fail(i, "connect", err) /\ Respond(i, ResJson(res[i], 500, ErrorBody("OpenAI TTS failed", "", ""))) /\ Goto(i, "done")
    /\ UNCHANGED <<process, env, req, calls, received, poll, appended, ssml>>

PipeData(i) ==
    /\ Running(i, "pipe", "streaming-openai-tts")
    /\ \E c \in Chunks :
         /\ Len(received[i]) < MaxEvents
         /\ Receive(i, c)
         /\ Respond(i, ResWrite(res[i], RawChunk(c)))
    /\ UNCHANGED <<process, env, req, pc, calls, poll, appended, failure, ssml>>

\* pipe() ends the destination when the source ends.
PipeEnd(i) ==
    /\ Running(i, "pipe", "streaming-openai-tts")
    /\ Respond(i, ResEnd(res[i]))
    /\ Goto(i, "done")
    /\ UNCHANGED <<process, env, req, calls, received, poll, appended, failure, ssml>>

\* pipe() does not listen for the source's 'error': uncaught, as in AzureError.
PipeError(i) ==
    /\ Running(i, "pipe", "streaming-openai-tts")
    /\ process' = "crashed"
    /\ Fail(i, "stream", NetworkError)
    /\ UNCHANGED <<env, req, pc, res, calls, received, poll, appended, ssml>>

\* ----------------------------------------------------------- azureTextToSpeech
AzureTextToSpeechStart(i) ==
    /\ Running(i, "start", "azureTextToSpeech")
    /\ LET b == req[i].body
           v == SelectMappedVoice(b.selectedVoice)
       IN IF ~Truthy(b.text)
          THEN /\ Respond(i, ResJson(res[i], 400, ErrorBody("Text is required", "", "")))
               /\ Goto(i, "done") /\ UNCHANGED calls
          ELSE IF v.threw
          THEN Caught(i, res[i], TypeError) /\ UNCHANGED calls
          ELSE /\ Issue(i, "axios.post azure speech", v.voice)
               /\ Goto(i, "azureTts")
               /\ UNCHANGED res
    /\ UNCHANGED <<process, env, req, received, poll, appended, failure, ssml>>

AzureTextToSpeechSettled(i) ==
    /\ Running(i, "azureTts", "azureTextToSpeech")
    /\ \/ NoFail(i) /\ Respond(i, ResSendAudio(res[i]))
       \/ \E err \in AxiosErrors :
            Fail(i, "call", err) /\ Respond(i, ResJson(res[i], MirroredStatus(err), ErrorBody("Azure TTS failed", err.message, "")))
    /\ Goto(i, "done")
    /\ UNCHANGED <<process, env, req, calls, received, poll, appended, ssml>>

\* ---------------------------------------------------- userList, updateUserGroup
DatastoreStart(i) ==
    /\ process = "running" /\ pc[i] = "start"
    /\ req[i].service \in {"userList", "updateUserGroup"}
    /\ Issue(i, "pool.query", JsUndefined)
    /\ Goto(i, "query")
    /\ UNCHANGED <<process, env, req, res, received, poll, appended, failure, ssml>>

DatastoreSettled(i) ==
    /\ process = "running" /\ pc[i] = "query"
    /\ \/ NoFail(i) /\ Respond(i, ResJson(res[i], IF req[i].service = "userList" THEN 201 ELSE 200, DataBody("rows")))
       \/ \E err \in SdkErrors : Fail(i, "call", err) /\ Respond(i, ResJson(res[i], 500, ErrorBody(err.message, "", "")))
    /\ Goto(i, "done")
    /\ UNCHANGED <<process, env, req, calls, received, poll, appended, ssml>>

\* ------------------------------------------------------------------ elevenlabs
\* The catch of the upstream call: the upstream body as the error when the
\* upstream answered, a fixed message otherwise.
ElevenlabsError(r, err) ==
    IF err.response # 0 THEN ResJson(r, err.response, ErrorBody(err.data, "", ""))
    ELSE ResJson(r, 500, ErrorBody("Unknown error with ElevenLabs", "", ""))

ElevenlabsStart(i) ==
    /\ Running(i, "start", "elevenlabs")
    /\ LET b == req[i].body
           v == ElevenVoiceId(b.selectedLanguage)
       IN IF "ELEVENLAB_API_KEY" \notin env
          THEN /\ Respond(i, ResJson(res[i], 500, ErrorBody("ElevenLabs API key missing", "", "")))
               /\ Goto(i, "done") /\ UNCHANGED calls
          ELSE IF v.threw
          THEN Caught(i, res[i], TypeError) /\ UNCHANGED calls
          ELSE IF ~Truthy(v.voice)
          THEN /\ Respond(i, ResJson(res[i], 400, ErrorBody("Not supported language", "", "")))
               /\ Goto(i, "done") /\ UNCHANGED calls
          ELSE /\ Issue(i, "axios.post elevenlabs", v.voice)
               /\ Goto(i, "elevenlabs")
               /\ UNCHANGED res
    /\ UNCHANGED <<process, env, req, received, poll, appended, failure, ssml>>

ElevenlabsSettled(i) ==
    /\ Running(i, "elevenlabs", "elevenlabs")
    /\ \/ NoFail(i) /\ Respond(i, ResSendAudio(res[i]))
       \/ \E err \in AxiosErrors : Fail(i, "call", err) /\ Respond(i, ElevenlabsError(res[i], err))
    /\ Goto(i, "done")
    /\ UNCHANGED <<process, env, req, calls, received, poll, appended, ssml>>

\* ------------------------------------------------------ fallback: invalid service
\* Mutant: the fallback answers 404.
InvalidServiceAnswer404(r) == ResJson(r, 404, ErrorBody("Invalid service", "", ""))

InvalidServiceAnswer(r) == ResJson(r, 400, ErrorBody("Invalid service", "", ""))

InvalidService(i) ==
    /\ process = "running" /\ pc[i] = "start"
    /\ req[i].service \notin HandledServices
    /\ Respond(i, InvalidServiceAnswer(res[i]))
    /\ Goto(i, "done")
    /\ UNCHANGED <<process, env, req, calls, received, poll, appended, failure, ssml>>

\* ------------------------------------------------------------- specification
Next ==
    \/ Startup
    \/ \E i \in Requests :
       \/ AzureSimulateurStart(i) \/ AzureConnected(i) \/ AzureData(i) \/ AzureEnd(i) \/ AzureError(i)
       \/ VertexChatStart(i) \/ VertexBatchSettled(i) \/ VertexConnected(i) \/ VertexNext(i)
       \/ OpenaiSimulateurStart(i) \/ SimConnected(i) \/ SimNext(i)
       \/ AssistantAnalyseStart(i) \/ PollThreadCreated(i) \/ PollRunCreated(i)
       \/ PollTimerFired(i) \/ PollRetrieved(i) \/ PollMessagesListed(i)
       \/ AsstStreamingStart(i) \/ AsstAppended(i) \/ AsstThreadCreated(i)
       \/ AsstConnected(i) \/ AsstNext(i)
       \/ OpenaiAnalyseStart(i) \/ AnalyseConnected(i) \/ AnalyseNext(i)
       \/ AzureAnalyseStart(i) \/ AzureAnalyseSettled(i)
       \/ OpenaiTtsStart(i) \/ OpenaiTtsSettled(i)
       \/ AzureTtsScalewayStart(i)
       \/ StreamingTtsStart(i) \/ StreamingTtsSettled(i) \/ PipeData(i) \/ PipeEnd(i) \/ PipeError(i)
       \/ AzureTextToSpeechStart(i) \/ AzureTextToSpeechSettled(i)
       \/ DatastoreStart(i) \/ DatastoreSettled(i)
       \/ ElevenlabsStart(i) \/ ElevenlabsSettled(i)
       \/ InvalidService(i)
       \/ HandlerRejected(i)
       \/ ClientDisconnect(i)

Spec == Init /\ [][Next]_vars

\* ------------------------------------------------- two concurrent requests
\* The process is up and two streaming requests are in the router at once;
\* their handlers' steps interleave in any order.
ConcurrentServices == SseServices \cup {"azureOpenaiSimulateur"}

InitConcurrent ==
    /\ ssml = NoSsml
    /\ process = "running"
    /\ env = EnvVars
    /\ \E s1, s2 \in ConcurrentServices :
         req = [i \in Requests |->
                  IF i = 1 THEN [service |-> s1, body |-> DefaultBody]
                  ELSE IF i = 2 THEN [service |-> s2, body |-> DefaultBody]
                  ELSE NoRequest]
    /\ pc = [i \in Requests |-> IF i <= 2 THEN "start" ELSE "idle"]
    /\ res = [i \in Requests |-> NewResponse]
    /\ calls = [i \in Requests |-> <<>>]
    /\ received = [i \in Requests |-> <<>>]
    /\ poll = [i \in Requests |-> NoPoll]
    /\ appended = [i \in Requests |-> 0]
    /\ failure = [i \in Requests |-> NoFailure]

NextConcurrent ==
    \E i \in Requests :
       \/ AzureSimulateurStart(i) \/ AzureConnected(i) \/ AzureData(i) \/ AzureEnd(i) \/ AzureError(i)
       \/ VertexChatStart(i) \/ VertexConnected(i) \/ VertexNext(i)
       \/ OpenaiSimulateurStart(i) \/ SimConnected(i) \/ SimNext(i)
       \/ AsstStreamingStart(i) \/ AsstThreadCreated(i) \/ AsstConnected(i) \/ AsstNext(i)
       \/ OpenaiAnalyseStart(i) \/ AnalyseConnected(i) \/ AnalyseNext(i)
       \/ HandlerRejected(i)

SpecConcurrent == InitConcurrent /\ [][NextConcurrent]_vars

\* ------------------------------------------------------------------ buildSSML
\* The texts buildSSML is tried with: every string of at most MaxText
\* characters over the five reserved characters, a letter and a semicolon.
TextChars == {"&", "<", ">", "\"", "'", "a", ";"}
Texts == UNION {[1..n -> TextChars] : n \in 0..MaxText}

\* No request is in flight; a text is about to be handed to buildSSML.
\* The optional parameters: absent, empty, or a value.
OptionValues(chars) == {JsUndefined, JsStr(<<>>), JsStr(chars)}
OptionSets ==
    {[NoOptions EXCEPT !.style = st, !.styleDegree = sd, !.rate = r, !.pitch = p, !.volume = v] :
        st \in OptionValues(<<"s", "a", "d">>), sd \in OptionValues(<<"2">>),
        r \in OptionValues(<<"+", "5", "%">>), p \in OptionValues(<<"-", "3", "s", "t">>),
        v \in OptionValues(<<"l", "o", "u", "d">>)}

\* Every text with no optional parameter, and one text with every combination
\* of the optional parameters.
InitSSML ==
    /\ ssml \in {[NoSsml EXCEPT !.text = t] : t \in Texts}
              \cup {[NoSsml EXCEPT !.text = <<"a", "<">>, !.opts = o] : o \in OptionSets}
    /\ process = "running"
    /\ env = EnvVars
    /\ req = [i \in Requests |-> NoRequest]
    /\ pc = [i \in Requests |-> "idle"]
    /\ res = [i \in Requests |-> NewResponse]
    /\ calls = [i \in Requests |-> <<>>]
    /\ received = [i \in Requests |-> <<>>]
    /\ poll = [i \in Requests |-> NoPoll]
    /\ appended = [i \in Requests |-> 0]
    /\ failure = [i \in Requests |-> NoFailure]

\* buildSSML embeds ${escapeXml(text)} in the document it returns.
BuildSSML ==
    /\ ~ssml.built
    /\ ssml' = [ssml EXCEPT !.escaped = EscapeXml(ssml.text),
                            !.doc = BuildSSMLDocument(ssml.text, ssml.opts),
                            !.built = TRUE]
    /\ UNCHANGED <<process, env, req, pc, res, calls, received, poll, appended, failure>>

NextSSML == BuildSSML

SpecSSML == InitSSML /\ [][NextSSML]_vars

\* ===================================================================== claims
Last(seq) == seq[Len(seq)]
IsDeltaFrame(f) == f.kind \in {"delta", "choices"}
IsEventWithDelta(ev) == ev # ""
NotThreadIdFrame(f) == f.kind # "threadId"
FrameTexts(frames) == [k \in DOMAIN frames |-> frames[k].text]
Issued(i, api) == \E k \in DOMAIN calls[i] : calls[i][k].api = api

\* The handler of request i has run to its end, or the process is gone.
Finished(i) == pc[i] = "done" \/ (pc[i] # "idle" /\ process = "crashed")

\* Request i is served as an event stream.
SseOpened(i) == req[i].service \in SseServices /\ res[i].contentType = "text/event-stream"

\* The delta frames the events consumed so far call for, in arrival order.
DeltaKind(svc) == IF svc = "openaiSimulateur" THEN "choices" ELSE "delta"
ExpectedDeltaFrames(i) ==
    LET evs == SelectSeq(received[i], IsEventWithDelta)
    IN [k \in DOMAIN evs |-> SseFrame(DeltaKind(req[i].service), evs[k])]

\* C1: in every SSE streaming service, whatever the upstream did, the last
\* frame written before the response ends is the [DONE] terminator.
C1_TerminatorAlwaysLast ==
    \A i \in Requests :
        (SseOpened(i) /\ res[i].ended > 0)
            => (res[i].frames # <<>> /\ Last(res[i].frames) = DoneFrame)

\* C2: every streaming request (SSE or raw passthrough) closes its sink
\* exactly once: when the handler is through, res.end was called once.
C2_SinkClosedExactlyOnce ==
    \A i \in Requests :
        (req[i].service \in SseServices \cup {"azureOpenaiSimulateur"} /\ Finished(i))
            => res[i].ended = 1

\* C3: after a mid-stream upstream failure the client has received the n
\* delta frames already written, then one error frame carrying the failure's
\* message, then one [DONE] frame, and the status on the wire is unchanged.
C3_MidStreamFailureFrames ==
    \A i \in Requests :
        (SseOpened(i) /\ failure[i].at = "stream" /\ pc[i] = "done")
            => /\ SelectSeq(res[i].frames, NotThreadIdFrame)
                    = ExpectedDeltaFrames(i) \o <<ErrorFrame(failure[i].err.message), DoneFrame>>
               /\ res[i].wireStatus = 200

\* C4: when the call that returns the upstream stream rejects, the client gets
\* a JSON error body with a non-2xx status and no SSE frame at all.
C4_EstablishFailureIsJson ==
    \A i \in Requests :
        (req[i].service \in SseServices /\ failure[i].at = "connect" /\ pc[i] = "done")
            => /\ res[i].body.kind = "json" /\ res[i].body.error # ""
               /\ res[i].wireStatus >= 300
               /\ res[i].frames = <<>>

\* C5: within one request's stream the delta frames on the sink are, at every
\* moment, exactly the frames of the delta-carrying events consumed so far, in
\* arrival order, one frame per event (none reordered, none merged).
C5_FramesInArrivalOrder ==
    \A i \in Requests :
        req[i].service \in SseServices
            => SelectSeq(res[i].frames, IsDeltaFrame) = ExpectedDeltaFrames(i)

C5_Witness ==
    \E i \in Requests :
        /\ req[i].service \in SseServices
        /\ received[i] = <<"b", "", "a">>
        /\ FrameTexts(SelectSeq(res[i].frames, IsDeltaFrame)) = <<"b", "a">>

\* C6: a service name outside the handled set is answered 400
\* {error: "Invalid service"} and issues no upstream call and no datastore query.
C6_InvalidServiceRejected ==
    \A i \in Requests :
        (pc[i] # "idle" /\ req[i].service \notin HandledServices)
            => /\ calls[i] = <<>>
               /\ pc[i] \in {"start", "done"}
               /\ pc[i] = "done"
                    => /\ res[i].wireStatus = 400
                       /\ res[i].body = ErrorBody("Invalid service", "", "")
                       /\ res[i].ended = 1
                       /\ res[i].frames = <<>>

C6_Witness ==
    \E i \in Requests : req[i].service = "bogus" /\ pc[i] = "done" /\ res[i].ended = 1

\* C7: in assistantOpenaiAnalyse a run whose status is "failed" is answered
\* 500 {error: "Assistant run failed", details: "failed"}; the result messages
\* are fetched, and an answer returned, only after status "completed".
C7_FailedRunAnswers500 ==
    \A i \in Requests :
        req[i].service = "assistantOpenaiAnalyse"
            => /\ poll[i].status = "failed"
                    => /\ pc[i] = "done"
                       /\ res[i].wireStatus = 500
                       /\ res[i].body = ErrorBody("Assistant run failed", "failed", "")
                       /\ res[i].ended = 1
               /\ poll[i].status # "completed"
                    => /\ ~Issued(i, "openai.threads.messages.list")
                       /\ res[i].body.data # "answer"

C7_Witness ==
    \E i \in Requests :
        /\ req[i].service = "assistantOpenaiAnalyse"
        /\ poll[i].status = "failed" /\ poll[i].count >= 2
        /\ pc[i] = "done"

\* C8: once the run has reached any terminal status the poll loop has stopped:
\* no further sleep or status query, and a terminal status other than
\* "completed" is answered with the job-failed error carrying that status.
C8_TerminalStatusStopsPolling ==
    \A i \in Requests :
        (req[i].service = "assistantOpenaiAnalyse" /\ poll[i].status \in TerminalStatuses)
            => /\ pc[i] \notin {"pollSleep", "pollRetrieve"}
               /\ poll[i].status # "completed"
                    => res[i].body = ErrorBody("Assistant run failed", poll[i].status, "")

\* C9: for openai-tts, streaming-openai-tts and azureTextToSpeech, whatever
\* selectedVoice is, a request with a text (and its key) reaches the upstream
\* call, and the voice sent is the trimmed lower-cased selectedVoice when that
\* is allow-listed and "fable" otherwise.
VoiceServices == {"openai-tts", "streaming-openai-tts", "azureTextToSpeech"}
DocumentedVoice(selectedVoice) ==
    IF selectedVoice.t = "string" /\ ToLowerCase(Trim(selectedVoice.s)) \in AllowedVoices
    THEN JsStr(ToLowerCase(Trim(selectedVoice.s)))
    ELSE JsStr(S_fable)

C9_VoiceFallsBackNeverFails ==
    \A i \in Requests :
        (/\ req[i].service \in VoiceServices
         /\ pc[i] \notin {"idle", "start"}
         /\ Truthy(req[i].body.text)
         /\ "OPENAI_API_KEY_SIMULATEUR" \in env)
            => /\ Len(calls[i]) = 1
               /\ calls[i][1].arg = DocumentedVoice(req[i].body.selectedVoice)

\* C10: for elevenlabs and azureTTS-Scaleway, a selectedLanguage with no entry
\* in the language table and no override voice is answered 400, with no
\* upstream call.
LanguageTable(svc) == IF svc = "elevenlabs" THEN ElevenVoiceMap ELSE ScalewayVoiceMap
Unmapped(svc, selectedLanguage) ==
    \/ selectedLanguage.t # "string"
    \/ ToLowerCase(Trim(selectedLanguage.s)) \notin DOMAIN LanguageTable(svc)

C10_UnmappedLanguageIs400 ==
    \A i \in Requests :
        (/\ req[i].service \in {"elevenlabs", "azureTTS-Scaleway"}
         /\ pc[i] = "done"
         /\ Truthy(req[i].body.text)
         /\ env = EnvVars
         /\ ~Truthy(req[i].body.selectedVoice)
         /\ Unmapped(req[i].service, req[i].body.selectedLanguage))
            => /\ res[i].wireStatus = 400
               /\ calls[i] = <<>>

\* C11: escapeXml replaces each of & < > " ' by its named entity in one pass:
\* the escaped text is the character-by-character mapping of the input, holds
\* no raw < > " or ', and every & in it opens an entity that stands for one
\* input character (an & written by a replacement is not escaped again).
ReservedChars == {"&", "<", ">", "\"", "'"}
EntityOf(c) ==
    CASE c = "&" -> X_amp
      [] c = "<" -> X_lt
      [] c = ">" -> X_gt
      [] c = "\"" -> X_quot
      [] c = "'" -> X_apos
      [] OTHER -> <<c>>
RECURSIVE MapChars(_)
MapChars(s) == IF s = <<>> THEN <<>> ELSE EntityOf(Head(s)) \o MapChars(Tail(s))
IsReserved(c) == c \in ReservedChars
IsAmpersand(c) == c = "&"

C11_EscapeXmlSinglePass ==
    ssml.built
        => /\ ssml.escaped = MapChars(ssml.text)
           /\ \A k \in DOMAIN ssml.escaped : ssml.escaped[k] \notin {"<", ">", "\"", "'"}
           /\ Len(SelectSeq(ssml.escaped, IsAmpersand)) = Len(SelectSeq(ssml.text, IsReserved))

C11_Witness ==
    /\ ssml.built
    /\ ssml.text = <<"<", "&", "a", "'">>
    /\ ssml.escaped = X_lt \o X_amp \o <<"a">> \o X_apos

\* C12: a request whose body lacks the field its service requires (the text of
\* a speech service, the messages list of a chat service) ends answered 400
\* with a JSON error body, and no upstream call was issued for it.
SpeechServices ==
    {"openai-tts", "azureTTS-Scaleway", "streaming-openai-tts", "azureTextToSpeech", "elevenlabs"}
ChatServices ==
    {"vertexChat", "openaiSimulateur", "openaiAnalyse", "assistantOpenaiAnalyse",
     "assistantOpenaiAnalyseStreaming"}
RequiredFieldMissing(i) ==
    \/ req[i].service \in SpeechServices /\ ~Truthy(req[i].body.text)
    \/ req[i].service \in ChatServices /\ ~req[i].body.messages.present

C12_MissingFieldIs400 ==
    \A i \in Requests :
        (RequiredFieldMissing(i) /\ env = EnvVars /\ pc[i] # "start")
            => /\ calls[i] = <<>>
               /\ pc[i] = "done"
               /\ res[i].wireStatus = 400
               /\ res[i].body.kind = "json" /\ res[i].body.error # ""

\* C13: every response sent with a non-2xx status has a JSON body that has
\* an `error` field.
IsErrorStatus(status) == status # 0 /\ (status < 200 \/ status >= 300)

C13_ErrorResponsesCarryErrorField ==
    \A i \in Requests :
        (res[i].ended > 0 /\ IsErrorStatus(res[i].wireStatus))
            => (res[i].body.kind = "json" /\ res[i].body.error # "")

\* C14: an upstream failure, wherever it strikes, is caught in the handler and
\* becomes that request's response: the process keeps running, the handler
\* does not reject, and once the handler is through the response is ended.
C14_UpstreamFailuresAreCaught ==
    \A i \in Requests :
        failure[i].at # "none"
            => /\ process = "running"
               /\ pc[i] # "rejected"
               /\ ~res[i].destroyed
               /\ pc[i] = "done" => res[i].ended = 1

\* C15: in assistantOpenaiAnalyseStreaming, a request without threadId creates
\* exactly one thread before the run starts and the threadId frame of that
\* thread is the first frame, the only one of its kind; a request with a
\* threadId creates no thread, gets no threadId frame, and its messages are
\* appended to that thread in request order, all of them before the run starts.
IsThreadCreate(c) == c.api = "openai.threads.create"
IsMessageAppend(c) == c.api = "openai.threads.messages.create"
IsRunStart(c) == c.api = "openai.threads.runs.createAndStream"
IsThreadIdFrame(f) == f.kind = "threadId"
RequestMessages(i) == IF req[i].body.messages.present THEN req[i].body.messages.list ELSE <<>>

C15_ThreadLifecycle ==
    \A i \in Requests :
        req[i].service = "assistantOpenaiAnalyseStreaming"
            => LET creates == SelectSeq(calls[i], IsThreadCreate)
                   appends == SelectSeq(calls[i], IsMessageAppend)
                   runs == SelectSeq(calls[i], IsRunStart)
                   frames == res[i].frames
               IN /\ Len(runs) <= 1
                  /\ calls[i] = creates \o appends \o runs
                  /\ IF ~Truthy(req[i].body.threadId)
                     THEN /\ appends = <<>>
                          /\ Len(creates) <= 1
                          /\ Len(SelectSeq(frames, IsThreadIdFrame)) <= 1
                          /\ frames # <<>> => IsThreadIdFrame(frames[1])
                          /\ runs # <<>>
                               => /\ Len(creates) = 1
                                  /\ frames # <<>>
                                  /\ runs[1].arg = JsStr(<<frames[1].text>>)
                     ELSE /\ creates = <<>>
                          /\ SelectSeq(frames, IsThreadIdFrame) = <<>>
                          /\ Len(appends) <= Len(RequestMessages(i))
                          /\ \A k \in DOMAIN appends :
                                appends[k].arg = JsStr(<<RequestMessages(i)[k]>>)
                          /\ runs # <<>>
                               => /\ Len(appends) = Len(RequestMessages(i))
                                  /\ runs[1].arg = req[i].body.threadId

C15_Witness ==
    \E i \in Requests :
        /\ req[i].service = "assistantOpenaiAnalyseStreaming"
        /\ req[i].body.threadId = JsStr(S_t1)
        /\ req[i].body.messages = Messages(<<"m2", "m1">>)
        /\ Len(SelectSeq(calls[i], IsMessageAppend)) = 2
        /\ Len(SelectSeq(calls[i], IsRunStart)) = 1
        /\ FrameTexts(res[i].frames) = <<"a", "[DONE]">>

\* C16: when an upstream call fails before the response headers are sent, the
\* status of the error response is the upstream response's status when the
\* failure carries one, and 500 otherwise.
C16_StatusMirrorsUpstream ==
    \A i \in Requests :
        (failure[i].at \in {"call", "connect"} /\ ~SseOpened(i) /\ Finished(i))
            => res[i].wireStatus = MirroredStatus(failure[i].err)

\* C17: in azureOpenaiSimulateur the content type is set before any body
\* byte, the body is exactly the upstream chunks received so far, unmodified,
\* in arrival order and without SSE framing, and the sink is closed when, and
\* only when, the upstream stream has signalled its end.
RawChunks(chunks) == [k \in DOMAIN chunks |-> RawChunk(chunks[k])]

C17_RawPassthrough ==
    \A i \in Requests :
        req[i].service = "azureOpenaiSimulateur"
            => /\ res[i].frames = RawChunks(received[i])
               /\ res[i].frames # <<>>
                    => res[i].contentType = "text/event-stream" /\ res[i].wireStatus = 200
               /\ res[i].body.kind = "none"
                    => (res[i].ended = 1 <=> (pc[i] = "done" /\ failure[i].at = "none"))
               /\ res[i].ended <= 1
               /\ res[i].writesAfterEnd = 0

C17_Witness ==
    \E i \in Requests :
        /\ req[i].service = "azureOpenaiSimulateur"
        /\ received[i] = <<"c2", "c1">>
        /\ res[i].frames = <<RawChunk("c2"), RawChunk("c1")>>
        /\ res[i].ended = 1

\* C18: a streaming request goes Idle, HeadersSent, Streaming, Terminated in
\* that order.  The SSE headers are on the wire before the upstream stream is
\* asked for and before any frame; nothing is written once the sink is closed;
\* no step takes a request back to an earlier phase.
StreamingServices == SseServices \cup {"azureOpenaiSimulateur", "streaming-openai-tts"}
StreamCalls ==
    {"vertex.generateContentStream", "openai.chat.completions.create",
     "openai.threads.runs.createAndStream"}
Phase(r) ==
    IF r.ended > 0 THEN 3
    ELSE IF r.frames # <<>> THEN 2
    ELSE IF r.headersSent THEN 1
    ELSE 0

C18_PhaseInvariant ==
    \A i \in Requests :
        req[i].service \in StreamingServices
            => /\ res[i].frames # <<>> => res[i].headersSent /\ res[i].contentType # ""
               /\ (\E api \in StreamCalls : Issued(i, api))
                    => res[i].headersSent /\ res[i].contentType = "text/event-stream"
               /\ res[i].writesAfterEnd = 0
               /\ res[i].ended <= 1

C18_PhaseStep ==
    \A i \in Requests :
        req[i].service \in StreamingServices
            => /\ Phase(res'[i]) >= Phase(res[i])
               /\ res[i].headersSent => res'[i].wireStatus = res[i].wireStatus
               /\ res[i].ended > 0 => res'[i].frames = res[i].frames

C18_PhasesInOrder == []C18_PhaseInvariant /\ [][C18_PhaseStep]_vars

C18_Witness ==
    \E i \in Requests :
        /\ req[i].service = "assistantOpenaiAnalyseStreaming"
        /\ FrameTexts(res[i].frames) = <<"th1", "a", "b", "[DONE]">>
        /\ res[i].ended = 1

\* C19: once a streaming handler has sent the headers, no later step of the
\* request calls res.status(...).json(...) on that response.
C19_NoJsonAfterHeaders ==
    \A i \in Requests :
        req[i].service \in StreamingServices => res[i].lateJson = 0

\* C20 (as stated): the number of delta frames equals the number of upstream
\* events received.
C20_FramesEqualEvents ==
    \A i \in Requests :
        req[i].service \in SseServices
            => Len(SelectSeq(res[i].frames, IsDeltaFrame)) = Len(received[i])

\* C20 (amended): in every SSE relay each upstream event that carries a non-empty
\* delta adds exactly one delta frame, carrying that delta, when it is
\* received, and an event that carries none adds no frame.
DeltaFrames(r) == SelectSeq(r.frames, IsDeltaFrame)

C20_EventStep ==
    \A i \in Requests :
        (req[i].service \in SseServices /\ received'[i] # received[i])
            => LET ev == Last(received'[i]) IN
               /\ received'[i] = Append(received[i], ev)
               /\ DeltaFrames(res'[i])
                    = IF ev # ""
                      THEN Append(DeltaFrames(res[i]), SseFrame(DeltaKind(req[i].service), ev))
                      ELSE DeltaFrames(res[i])

C20_OneFramePerDeltaEvent == [][C20_EventStep]_vars

C20_Witness ==
    \E i \in Requests :
        /\ req[i].service = "openaiAnalyse"
        /\ received[i] = <<"a", "", "a">>
        /\ FrameTexts(res[i].frames) = <<"a", "a">>

\* C21: azureTTS-Scaleway with a text and both Azure Speech credentials issues
\* exactly one synthesis call, for the selected voice (override, else the
\* language table entry, else the French default), and answers an upstream
\* success with the audio as audio/mpeg.
C21_ScalewaySynthesisCall ==
    \A i \in Requests :
        (/\ req[i].service = "azureTTS-Scaleway"
         /\ Truthy(req[i].body.text)
         /\ env = EnvVars
         /\ ~ScalewayVoice(req[i].body.selectedLanguage, req[i].body.selectedVoice).threw
         /\ pc[i] # "start")
            => /\ Len(calls[i]) = 1
               /\ calls[i][1].arg
                    = ScalewayVoice(req[i].body.selectedLanguage, req[i].body.selectedVoice).voice
               /\ (pc[i] = "done" /\ failure[i].at = "none")
                    => res[i].body = AudioBody /\ res[i].contentType = "audio/mpeg"

\* C22: no upstream call is retried.  Once an upstream call of a request has
\* failed, the request issues no further upstream call or status query, meets
\* no second failure, and its handler is over (or the process is); the
\* response is ended at most once.
C22_FailedOnce ==
    \A i \in Requests :
        failure[i].at # "none"
            => /\ pc[i] \in {"done", "rejected"} \/ process = "crashed"
               /\ res[i].ended <= 1

C22_NoCallAfterFailure ==
    \A i \in Requests :
        failure[i].at # "none"
            => /\ calls'[i] = calls[i]
               /\ poll'[i] = poll[i]
               /\ received'[i] = received[i]
               /\ failure'[i] = failure[i]

C22_NoRetry == []C22_FailedOnce /\ [][C22_NoCallAfterFailure]_vars

C22_Witness ==
    \E i \in Requests :
        /\ req[i].service = "assistantOpenaiAnalyse"
        /\ failure[i].at = "call"
        /\ poll[i].count = 2
        /\ Len(calls[i]) = 4
        /\ pc[i] = "done" /\ res[i].wireStatus = 500 /\ res[i].ended = 1

\* C23: in the document buildSSML returns, the style wrapper is present only if
\* style or style degree is non-empty and the prosody wrapper only if rate,
\* pitch or volume is; a wrapper is an opening and a closing tag together,
\* around the text, the prosody wrapper inside the style wrapper; an omitted
\* wrapper leaves no tag; the prosody tag carries exactly the non-empty
\* attributes.
TagsAt(doc, kind, name) == {k \in DOMAIN doc : doc[k].kind = kind /\ doc[k].name = name}
TextAt(doc) == {k \in DOMAIN doc : doc[k].kind = "text"}
NonEmpty(v) == v.t = "string" /\ v.s # <<>>
Wrapped(doc, name) ==
    \/ TagsAt(doc, "open", name) = {} /\ TagsAt(doc, "close", name) = {}
    \/ \E a, b \in DOMAIN doc :
          /\ TagsAt(doc, "open", name) = {a}
          /\ TagsAt(doc, "close", name) = {b}
          /\ \A t \in TextAt(doc) : a < t /\ t < b
ExpectedProsodyAttrs(o) ==
    (IF NonEmpty(o.rate) THEN <<XmlAttr("rate", o.rate.s)>> ELSE <<>>)
    \o (IF NonEmpty(o.pitch) THEN <<XmlAttr("pitch", o.pitch.s)>> ELSE <<>>)
    \o (IF NonEmpty(o.volume) THEN <<XmlAttr("volume", o.volume.s)>> ELSE <<>>)

C23_WrappersOnlyWhenNeeded ==
    ssml.built
        => LET doc == ssml.doc
               o == ssml.opts
           IN /\ Cardinality(TextAt(doc)) = 1
              /\ Wrapped(doc, "mstts:express-as")
              /\ Wrapped(doc, "prosody")
              /\ TagsAt(doc, "open", "mstts:express-as") # {}
                   => NonEmpty(o.style) \/ NonEmpty(o.styleDegree)
              /\ TagsAt(doc, "open", "prosody") # {}
                   => NonEmpty(o.rate) \/ NonEmpty(o.pitch) \/ NonEmpty(o.volume)
              /\ \A k \in TagsAt(doc, "open", "prosody") :
                   doc[k].attrs = ExpectedProsodyAttrs(o)
              /\ \A a \in TagsAt(doc, "open", "mstts:express-as") :
                   \A b \in TagsAt(doc, "open", "prosody") : a < b
              /\ \A a \in TagsAt(doc, "close", "mstts:express-as") :
                   \A b \in TagsAt(doc, "close", "prosody") : b < a

C23_Witness ==
    /\ ssml.built
    /\ ssml.opts.style = JsUndefined /\ ssml.opts.styleDegree = JsStr(<<"2">>)
    /\ ssml.opts.rate = JsStr(<<"+", "5", "%">>) /\ ssml.opts.pitch = JsStr(<<>>)
    /\ ssml.opts.volume = JsStr(<<"l", "o", "u", "d">>)
    /\ TagsAt(ssml.doc, "open", "mstts:express-as") = {}
    /\ TagsAt(ssml.doc, "open", "prosody") = {5}
    /\ TagsAt(ssml.doc, "close", "prosody") = {7}

\* C24: a missing credential or configuration value never keeps the process
\* from starting; the request that needs the missing value is answered 500.
C24_MissingConfigIs500AtFirstUse ==
    /\ process # "exited"
    /\ \A i \in Requests :
         (/\ pc[i] = "done"
          /\ EnvReadBy(req[i].service) \ env # {}
          /\ Truthy(req[i].body.text))
            => res[i].wireStatus = 500

\* C25: with two streaming requests interleaved, each sink holds exactly the
\* frames of its own request's upstream stream, in that stream's order, with
\* its terminator and error frame only for its own end and its own failure;
\* a step of one request changes nothing of the other request.
IsDoneFrame(f) == f = DoneFrame
IsErrorFrame(f) == f.kind = "error"

C25_OwnFramesOnly ==
    \A i \in Requests :
        /\ req[i].service \in SseServices
             => /\ SelectSeq(res[i].frames, IsDeltaFrame) = ExpectedDeltaFrames(i)
                /\ SelectSeq(res[i].frames, IsDoneFrame) # <<>> => pc[i] = "done"
                /\ SelectSeq(res[i].frames, IsErrorFrame) # <<>> => failure[i].at # "none"
        /\ req[i].service = "azureOpenaiSimulateur" => res[i].frames = RawChunks(received[i])
        /\ pc[i] = "idle" => res[i] = NewResponse

C25_OneRequestPerStep ==
    \A i, j \in Requests :
        (i # j /\ <<res[i], received[i], calls[i], pc[i], failure[i]>>
                    # <<res'[i], received'[i], calls'[i], pc'[i], failure'[i]>>)
            => <<res[j], received[j], calls[j], pc[j], failure[j], appended[j], poll[j]>>
                 = <<res'[j], received'[j], calls'[j], pc'[j], failure'[j], appended'[j], poll'[j]>>

C25_RequestsIsolated == []C25_OwnFramesOnly /\ [][C25_OneRequestPerStep]_vars

C25_Witness ==
    /\ req[1].service = "openaiSimulateur" /\ req[2].service = "vertexChat"
    /\ received[1] = <<"a", "b">> /\ received[2] = <<"b", "a", "a">>
    /\ FrameTexts(res[1].frames) = <<"a", "b">>
    /\ FrameTexts(res[2].frames) = <<"b", "a", "a", "[DONE]">>
    /\ pc[1] = "simLoop" /\ pc[2] = "done"

\* C26: after the client has disconnected mid-stream, the relay goes on: as
\* long as the upstream has items the next one can still be consumed, the
\* loop is left only by the upstream's end or failure, and nothing is done
\* about the upstream (no further call, no abort).
TakesNextItem(i) == Next /\ received'[i] # received[i]

C26_StillConsuming ==
    \A i \in Requests :
        (/\ res[i].closedAt >= 0 /\ pc[i] \in RelayPcs
         /\ process = "running" /\ Len(received[i]) < MaxEvents)
            => ENABLED TakesNextItem(i)

C26_LeftOnlyByUpstream ==
    \A i \in Requests :
        (res[i].closedAt >= 0 /\ pc[i] \in RelayPcs)
            => /\ calls'[i] = calls[i]
               /\ pc'[i] # pc[i]
                    => /\ pc'[i] \in {"done", "rejected"}
                       /\ failure'[i].at = "stream" \/ res'[i].ended = 1

C26_DisconnectNotDetected == []C26_StillConsuming /\ [][C26_LeftOnlyByUpstream]_vars

C26_Witness ==
    \E i \in Requests :
        /\ req[i].service = "openaiSimulateur"
        /\ res[i].closedAt = 1
        /\ received[i] = <<"a", "b", "a">>
        /\ FrameTexts(res[i].frames) = <<"a", "b", "a", "0", "[DONE]">>
        /\ pc[i] = "done" /\ res[i].ended = 1

====
